---- MODULE Spec2Model ----
(***************************************************************************)
(* Quote Scribe: the localStorage persistence layer (js/storage.js), the   *)
(* id generator (js/utils.js) and the controller that drives them          *)
(* (js/main.js).                                                           *)
(*                                                                         *)
(* Spec     the Entity Store API called in any order with any arguments.   *)
(* AppSpec  the controller's event handlers, the Store's only caller.      *)
(* ExportSpec the Store filled, exported, and the export imported again.   *)
(* TabsSpec two windows on one localStorage, each calling saveQuote.       *)
(* ApiSpec  the controller's API key and quote generation handlers, whose  *)
(*          requests to OpenRouter are answered later, in any order.       *)
(***************************************************************************)
EXTENDS Integers, Sequences, FiniteSets, TLC

VARIABLES
    storage,    \* localStorage: one raw item per STORAGE_KEYS entry
    last,       \* the operation that ran last: its name, arguments and result
    nops,       \* number of operations run so far
    clock,      \* Date.now()
    ui,         \* the controller: currentSection and what each container shows
    tabs,       \* per window: where its saveQuote call stands, and its locals
    api         \* apiClient.apiKey, #quote-input, the generate button and the requests awaited

vars == <<storage, last, nops, clock, ui, tabs, api>>

(***************************************************************************)
(* Bounds                                                                  *)
(***************************************************************************)
MaxOps == 3
MaxClock == 1

(***************************************************************************)
(* Values                                                                  *)
(***************************************************************************)
\* Text is a sequence of characters, so that trim() is computed.
Texts == { <<"a">>, <<"b">> }

\* Math.random().toString(36).substr(2): the base-36 digits after "0.".
\* Math.random() = 0 prints as "0", whose substr(2) is empty.
RandSuffixes == { <<>>, <<18>> }

RECURSIVE toString36(_)
toString36(n) ==
    IF n < 36 THEN <<n>> ELSE toString36(n \div 36) \o <<n % 36>>

generateId(now, rnd) == toString36(now) \o rnd

\* new Date().toISOString(): one string per millisecond, kept as the millisecond.
toISOString(now) == now

\* Identifiers and entities a caller of the Store passes in.
IdInputs == { generateId(0, r) : r \in RandSuffixes }
NoId == <<>>
NoArg == [none |-> TRUE]

QuoteInputs ==
    [id : IdInputs, text : Texts, createdAt : {toISOString(0)}, isFavorite : {FALSE}]

ReflectionInputs ==
    [id : IdInputs, quoteId : IdInputs, text : {<<"a">>}, createdAt : {toISOString(0)}]

QuotePatches ==
    { [text |-> <<"b">>], [isFavorite |-> TRUE], [createdAt |-> toISOString(1)] }
    \cup { [id |-> i] : i \in IdInputs }
    \cup { [text |-> <<"b">>, id |-> i] : i \in IdInputs }

ReflectionPatches ==
    { [text |-> <<"b">>], [createdAt |-> toISOString(1)] }
    \cup { [id |-> i] : i \in IdInputs }
    \cup { [quoteId |-> i] : i \in IdInputs }

(***************************************************************************)
(* Sequence helpers: Array.prototype.filter / findIndex / includes         *)
(***************************************************************************)
\* Array.prototype.filter is Sequences' SelectSeq.

includes(s, x) == \E i \in 1..Len(s) : s[i] = x

\* 0 stands for JavaScript's -1 (sequences are 1-based here).
\* s.findIndex(x => x.id === id)
findIndex(s, id) ==
    IF \E i \in 1..Len(s) : s[i].id = id
    THEN CHOOSE i \in 1..Len(s) : s[i].id = id /\ \A j \in 1..(i - 1) : s[j].id # id
    ELSE 0

\* { ...a, ...b }
spread(a, b) ==
    [f \in (DOMAIN a) \cup (DOMAIN b) |-> IF f \in DOMAIN b THEN b[f] ELSE a[f]]

(***************************************************************************)
(* Persistence adapter                                                     *)
(***************************************************************************)
STORAGE_KEYS == [API_KEY |-> "api_key", QUOTES |-> "quotes",
                 FAVORITES |-> "favorites", REFLECTIONS |-> "reflections"]

Keys == { "api_key", "quotes", "favorites", "reflections" }

\* A raw item: no item (localStorage.getItem gives null), text JSON.parse
\* rejects, or the text JSON.stringify produced for a value.
Absent == [kind |-> "absent"]
Corrupt == [kind |-> "corrupt"]
JSONstringify(value) == [kind |-> "json", val |-> value]
JSONparse(item) == item.val

\* ok = FALSE: localStorage.setItem threw (quota exceeded, medium unavailable).
\* Mutant: the catch block reports success.
setItem_optimistic(st, key, value, ok) ==
    [st |-> IF ok THEN [st EXCEPT ![key] = JSONstringify(value)] ELSE st,
     ret |-> TRUE]

setItem(st, key, value, ok) ==
    [st |-> IF ok THEN [st EXCEPT ![key] = JSONstringify(value)] ELSE st,
     ret |-> ok]

\* Mutant: JSON.parse outside the try block, its exception reaches the caller.
getItem_unguarded(st, key, defaultValue) ==
    IF st[key].kind = "absent" THEN defaultValue
    ELSE IF st[key].kind = "corrupt" THEN <<"SyntaxError">>
    ELSE JSONparse(st[key])

getItem(st, key, defaultValue) ==
    IF st[key].kind = "absent" THEN defaultValue
    ELSE IF st[key].kind = "corrupt" THEN defaultValue
    ELSE JSONparse(st[key])

removeItem(st, key) == [st |-> [st EXCEPT ![key] = Absent], ret |-> TRUE]

\* Mutant: only the three collections are removed.
clearAll_collections(st) ==
    [st |-> [key \in DOMAIN st |->
                IF key \in Keys \ {STORAGE_KEYS.API_KEY} THEN Absent ELSE st[key]],
     ret |-> TRUE]

\* Object.values(STORAGE_KEYS).forEach(key => localStorage.removeItem(key))
clearAll(st) ==
    [st |-> [key \in DOMAIN st |-> IF key \in Keys THEN Absent ELSE st[key]],
     ret |-> TRUE]

(***************************************************************************)
(* Entity Store: API key                                                   *)
(***************************************************************************)
\* A key is a string, kept as its sequence of characters; '' is <<>>.
ApiKeyInputs == { <<>>, <<"s", "k", "-", "o", "r", "-", "1">> }

getApiKey(st) == getItem(st, STORAGE_KEYS.API_KEY, <<>>)

Storage_setApiKey(st, key, ok) == setItem(st, STORAGE_KEYS.API_KEY, key, ok)

Storage_removeApiKey(st) == removeItem(st, STORAGE_KEYS.API_KEY)

\* Mutant: a credential is always reported.
hasApiKey_always(st) == TRUE

\* key && key.length > 0, as the condition it is used for.
hasApiKey(st) ==
    LET key == getApiKey(st)
    IN  key # <<>> /\ Len(key) > 0

(***************************************************************************)
(* Entity Store: quotes                                                    *)
(***************************************************************************)
getQuotes(st) == getItem(st, STORAGE_KEYS.QUOTES, <<>>)

\* Mutant: push instead of unshift.
Storage_saveQuote_push(st, quote, ok) ==
    setItem(st, STORAGE_KEYS.QUOTES, Append(getQuotes(st), quote), ok)

\* saveQuote up to its write: the array read, with the quote put in front.
saveQuote_read(st, quote) == <<quote>> \o getQuotes(st)

\* Mutant: the write puts the quote in front of what is stored by then.
saveQuote_write_fresh(st, quotes, ok) ==
    setItem(st, STORAGE_KEYS.QUOTES, <<Head(quotes)>> \o getQuotes(st), ok)

\* saveQuote's write of that array.
saveQuote_write(st, quotes, ok) == setItem(st, STORAGE_KEYS.QUOTES, quotes, ok)

Storage_saveQuote(st, quote, ok) ==
    LET quotes == saveQuote_read(st, quote)
    IN  saveQuote_write(st, quotes, ok)

\* Mutant: the record is replaced by the patch instead of merged with it.
Storage_updateQuote_replace(st, id, updates, ok) ==
    LET quotes == getQuotes(st)
        index == findIndex(quotes, id)
    IN  IF index # 0
        THEN setItem(st, STORAGE_KEYS.QUOTES, [quotes EXCEPT ![index] = updates], ok)
        ELSE [st |-> st, ret |-> FALSE]

\* Mutant: an unknown id is inserted instead of refused.
Storage_updateQuote_upsert(st, id, updates, ok) ==
    LET quotes == getQuotes(st)
        index == findIndex(quotes, id)
    IN  IF index # 0
        THEN setItem(st, STORAGE_KEYS.QUOTES,
                     [quotes EXCEPT ![index] = spread(quotes[index], updates)], ok)
        ELSE setItem(st, STORAGE_KEYS.QUOTES, <<updates>> \o quotes, ok)

Storage_updateQuote(st, id, updates, ok) ==
    LET quotes == getQuotes(st)
        index == findIndex(quotes, id)
    IN  IF index # 0
        THEN setItem(st, STORAGE_KEYS.QUOTES,
                     [quotes EXCEPT ![index] = spread(quotes[index], updates)], ok)
        ELSE [st |-> st, ret |-> FALSE]

\* Mutant: a delete that removes nothing reports failure, as update does.
Storage_deleteQuote_strict(st, id, ok) ==
    LET quotes == getQuotes(st)
        Other(q) == q.id # id
        filteredQuotes == SelectSeq(quotes, Other)
    IN  IF Len(filteredQuotes) = Len(quotes)
        THEN [st |-> st, ret |-> FALSE]
        ELSE setItem(st, STORAGE_KEYS.QUOTES, filteredQuotes, ok)

\* Mutant: the quote's reflections are deleted with it.
Storage_deleteQuote_cascade(st, id, ok) ==
    LET quotes == getItem(st, STORAGE_KEYS.QUOTES, <<>>)
        OtherQuote(q) == q.id # id
        OtherReflection(r) == r.quoteId # id
        res == setItem(st, STORAGE_KEYS.QUOTES, SelectSeq(quotes, OtherQuote), ok)
    IN  setItem(res.st, STORAGE_KEYS.REFLECTIONS,
                SelectSeq(getItem(st, STORAGE_KEYS.REFLECTIONS, <<>>), OtherReflection),
                ok)

Storage_deleteQuote(st, id, ok) ==
    LET quotes == getQuotes(st)
        Other(q) == q.id # id
        filteredQuotes == SelectSeq(quotes, Other)
    IN  setItem(st, STORAGE_KEYS.QUOTES, filteredQuotes, ok)

(***************************************************************************)
(* Entity Store: favorites                                                 *)
(***************************************************************************)
getFavorites(st) == getItem(st, STORAGE_KEYS.FAVORITES, <<>>)

\* Mutant: the quote's isFavorite field is set as well.
Storage_addToFavorites_flagging(st, quoteId, ok) ==
    LET flagged == Storage_updateQuote(st, quoteId, [isFavorite |-> TRUE], ok).st
        favorites == getFavorites(st)
    IN  IF ~includes(favorites, quoteId)
        THEN setItem(flagged, STORAGE_KEYS.FAVORITES, Append(favorites, quoteId), ok)
        ELSE [st |-> flagged, ret |-> TRUE]

\* Mutant: a multiset, every add appends.
Storage_addToFavorites_append(st, quoteId, ok) ==
    setItem(st, STORAGE_KEYS.FAVORITES, Append(getFavorites(st), quoteId), ok)

Storage_addToFavorites(st, quoteId, ok) ==
    LET favorites == getFavorites(st)
    IN  IF ~includes(favorites, quoteId)
        THEN setItem(st, STORAGE_KEYS.FAVORITES, Append(favorites, quoteId), ok)
        ELSE [st |-> st, ret |-> TRUE]

Storage_removeFromFavorites(st, quoteId, ok) ==
    LET favorites == getFavorites(st)
        Other(id) == id # quoteId
        filteredFavorites == SelectSeq(favorites, Other)
    IN  setItem(st, STORAGE_KEYS.FAVORITES, filteredFavorites, ok)

isFavorite(st, quoteId) == includes(getFavorites(st), quoteId)

\* Mutant: one entry per favorite id, the quote when it is stored.
getFavoriteQuotes_byFavorites(st) ==
    LET quotes == getQuotes(st)
        favorites == getFavorites(st)
    IN  [i \in 1..Len(favorites) |->
            IF \E j \in 1..Len(quotes) : quotes[j].id = favorites[i]
            THEN quotes[CHOOSE j \in 1..Len(quotes) : quotes[j].id = favorites[i]]
            ELSE [id |-> favorites[i]]]

\* Mutant: the quote's own isFavorite field decides.
getFavoriteQuotes_byFlag(st) ==
    LET quotes == getQuotes(st)
        Flagged(quote) == quote.isFavorite
    IN  SelectSeq(quotes, Flagged)

getFavoriteQuotes(st) ==
    LET quotes == getQuotes(st)
        favorites == getFavorites(st)
        IsFav(quote) == includes(favorites, quote.id)
    IN  SelectSeq(quotes, IsFav)

(***************************************************************************)
(* Entity Store: reflections                                               *)
(***************************************************************************)
getReflections(st) == getItem(st, STORAGE_KEYS.REFLECTIONS, <<>>)

Storage_saveReflection(st, reflection, ok) ==
    LET reflections == <<reflection>> \o getReflections(st)
    IN  setItem(st, STORAGE_KEYS.REFLECTIONS, reflections, ok)

Storage_updateReflection(st, id, updates, ok) ==
    LET reflections == getReflections(st)
        index == findIndex(reflections, id)
    IN  IF index # 0
        THEN setItem(st, STORAGE_KEYS.REFLECTIONS,
                     [reflections EXCEPT ![index] = spread(reflections[index], updates)], ok)
        ELSE [st |-> st, ret |-> FALSE]

Storage_deleteReflection(st, id, ok) ==
    LET reflections == getReflections(st)
        Other(r) == r.id # id
        filteredReflections == SelectSeq(reflections, Other)
    IN  setItem(st, STORAGE_KEYS.REFLECTIONS, filteredReflections, ok)

\* Mutant: the reflections are matched by their own id.
getReflectionsForQuote_byId(st, quoteId) ==
    LET reflections == getReflections(st)
        Same(r) == r.id = quoteId
    IN  SelectSeq(reflections, Same)

getReflectionsForQuote(st, quoteId) ==
    LET reflections == getReflections(st)
        ForQuote(r) == r.quoteId = quoteId
    IN  SelectSeq(reflections, ForQuote)

(***************************************************************************)
(* Entity Store: statistics                                                *)
(***************************************************************************)
\* Mutant: the number of favorite quotes, not of favorite ids.
getStats_resolved(st) ==
    [totalQuotes |-> Len(getQuotes(st)),
     totalFavorites |-> Len(getFavoriteQuotes(st)),
     totalReflections |-> Len(getReflections(st)),
     hasApiKey |-> hasApiKey(st)]

getStats(st) ==
    LET quotes == getQuotes(st)
        favorites == getFavorites(st)
        reflections == getReflections(st)
    IN  [totalQuotes |-> Len(quotes),
         totalFavorites |-> Len(favorites),
         totalReflections |-> Len(reflections),
         hasApiKey |-> hasApiKey(st)]

(***************************************************************************)
(* Entity Store: bulk import                                               *)
(***************************************************************************)
\* JavaScript's null (importData(null) throws inside the try block).
JSNull == [null |-> TRUE]

ImportKeys == { "quotes", "favorites", "reflections" }

\* if (data.k) ...: a missing field is undefined (falsy), an array is truthy
\* even when empty.
truthy(data, k) == k \in DOMAIN data

\* failed: the keys whose setItem call fails.
\* Mutant: the imported entries are put in front of the stored ones.
importData_merge(st, data, failed) ==
    IF data = JSNull THEN [st |-> st, ret |-> FALSE]
    ELSE
    LET merged(s, k) ==
            IF truthy(data, k)
            THEN setItem(s, k, data[k] \o getItem(s, k, <<>>), k \notin failed).st
            ELSE s
    IN  [st |-> merged(merged(merged(st, "quotes"), "favorites"), "reflections"),
         ret |-> TRUE]

importData(st, data, failed) ==
    IF data = JSNull THEN [st |-> st, ret |-> FALSE]
    ELSE
    LET s1 == IF truthy(data, "quotes")
              THEN setItem(st, STORAGE_KEYS.QUOTES, data.quotes,
                           "quotes" \notin failed).st
              ELSE st
        s2 == IF truthy(data, "favorites")
              THEN setItem(s1, STORAGE_KEYS.FAVORITES, data.favorites,
                           "favorites" \notin failed).st
              ELSE s1
        s3 == IF truthy(data, "reflections")
              THEN setItem(s2, STORAGE_KEYS.REFLECTIONS, data.reflections,
                           "reflections" \notin failed).st
              ELSE s2
    IN  [st |-> s3, ret |-> TRUE]

ImportValues ==
    [quotes |-> { <<>>,
                  <<[id |-> generateId(0, <<>>), text |-> <<"a">>,
                     createdAt |-> toISOString(0), isFavorite |-> FALSE]>> },
     favorites |-> { <<>>, <<generateId(0, <<>>)>> },
     reflections |-> { <<>>,
                       <<[id |-> generateId(0, <<>>), quoteId |-> generateId(0, <<18>>),
                          text |-> <<"a">>, createdAt |-> toISOString(0)]>> }]

ImportInputs ==
    { [k \in K |-> full[k]] :
        full \in [quotes : ImportValues.quotes, favorites : ImportValues.favorites,
                  reflections : ImportValues.reflections],
        K \in SUBSET ImportKeys }

(***************************************************************************)
(* Entity Store: export                                                    *)
(***************************************************************************)
\* The apiKey field of a snapshot is the string '***' or null, written here
\* as the strings "***" and "null".
\* Mutant: the mask has one star for each character of the key.
exportData_maskPerCharacter(st, now) ==
    [apiKey |-> IF ~hasApiKey(st) THEN "null"
                ELSE IF Len(getApiKey(st)) > 7 THEN "*********************"
                ELSE "*******",
     quotes |-> getQuotes(st),
     favorites |-> getFavorites(st),
     reflections |-> getReflections(st),
     exportDate |-> toISOString(now)]

exportData(st, now) ==
    [apiKey |-> IF hasApiKey(st) THEN "***" ELSE "null",
     quotes |-> getQuotes(st),
     favorites |-> getFavorites(st),
     reflections |-> getReflections(st),
     exportDate |-> toISOString(now)]

(***************************************************************************)
(* Initial state                                                           *)
(***************************************************************************)
\* Two windows of the application on the same origin share localStorage.
Tabs == { 1, 2 }
IdleTab == [pc |-> "idle"]

EmptyUi == [currentSection |-> "add-quote", quotes |-> <<>>, favorites |-> <<>>,
            reflections |-> <<>>, select |-> <<>>]

\* hit: whether the operation's id was in its collection when it was called.
Ran(op, id, arg, hit, ret) ==
    [op |-> op, id |-> id, arg |-> arg, hit |-> hit, ret |-> ret]

Init ==
    /\ storage \in { st \in [Keys -> {Absent, Corrupt}] : st["api_key"] = Absent }
    /\ last = Ran("init", NoId, NoArg, FALSE, TRUE)
    /\ nops = 0
    /\ clock = 0
    /\ ui = EmptyUi
    /\ tabs = [tab \in Tabs |-> IdleTab]
    /\ api = [apiKey |-> getApiKey(storage), quoteInput |-> <<>>, calls |-> {},
             busy |-> FALSE]

hasQuote(st, id) == \E i \in 1..Len(getQuotes(st)) : getQuotes(st)[i].id = id
hasReflection(st, id) ==
    \E i \in 1..Len(getReflections(st)) : getReflections(st)[i].id = id

(***************************************************************************)
(* Spec: a caller invokes one Entity Store operation                       *)
(***************************************************************************)
Call_saveQuote ==
    /\ nops < MaxOps
    /\ \E quote \in QuoteInputs, ok \in BOOLEAN :
        LET res == Storage_saveQuote(storage, quote, ok)
        IN  /\ storage' = res.st
            /\ last' = Ran("saveQuote", quote.id, quote,
                           hasQuote(storage, quote.id), res.ret)
    /\ nops' = nops + 1
    /\ UNCHANGED <<clock, ui, tabs, api>>

Call_updateQuote ==
    /\ nops < MaxOps
    /\ \E id \in IdInputs, updates \in QuotePatches, ok \in BOOLEAN :
        LET res == Storage_updateQuote(storage, id, updates, ok)
        IN  /\ storage' = res.st
            /\ last' = Ran("updateQuote", id, updates, hasQuote(storage, id), res.ret)
    /\ nops' = nops + 1
    /\ UNCHANGED <<clock, ui, tabs, api>>

Call_deleteQuote ==
    /\ nops < MaxOps
    /\ \E id \in IdInputs, ok \in BOOLEAN :
        LET res == Storage_deleteQuote(storage, id, ok)
        IN  /\ storage' = res.st
            /\ last' = Ran("deleteQuote", id, NoArg, hasQuote(storage, id), res.ret)
    /\ nops' = nops + 1
    /\ UNCHANGED <<clock, ui, tabs, api>>

Call_addToFavorites ==
    /\ nops < MaxOps
    /\ \E id \in IdInputs, ok \in BOOLEAN :
        LET res == Storage_addToFavorites(storage, id, ok)
        IN  /\ storage' = res.st
            /\ last' = Ran("addToFavorites", id, NoArg, isFavorite(storage, id), res.ret)
    /\ nops' = nops + 1
    /\ UNCHANGED <<clock, ui, tabs, api>>

Call_removeFromFavorites ==
    /\ nops < MaxOps
    /\ \E id \in IdInputs, ok \in BOOLEAN :
        LET res == Storage_removeFromFavorites(storage, id, ok)
        IN  /\ storage' = res.st
            /\ last' = Ran("removeFromFavorites", id, NoArg,
                           isFavorite(storage, id), res.ret)
    /\ nops' = nops + 1
    /\ UNCHANGED <<clock, ui, tabs, api>>

Call_saveReflection ==
    /\ nops < MaxOps
    /\ \E reflection \in ReflectionInputs, ok \in BOOLEAN :
        LET res == Storage_saveReflection(storage, reflection, ok)
        IN  /\ storage' = res.st
            /\ last' = Ran("saveReflection", reflection.id, reflection,
                           hasReflection(storage, reflection.id), res.ret)
    /\ nops' = nops + 1
    /\ UNCHANGED <<clock, ui, tabs, api>>

Call_updateReflection ==
    /\ nops < MaxOps
    /\ \E id \in IdInputs, updates \in ReflectionPatches, ok \in BOOLEAN :
        LET res == Storage_updateReflection(storage, id, updates, ok)
        IN  /\ storage' = res.st
            /\ last' = Ran("updateReflection", id, updates,
                           hasReflection(storage, id), res.ret)
    /\ nops' = nops + 1
    /\ UNCHANGED <<clock, ui, tabs, api>>

Call_deleteReflection ==
    /\ nops < MaxOps
    /\ \E id \in IdInputs, ok \in BOOLEAN :
        LET res == Storage_deleteReflection(storage, id, ok)
        IN  /\ storage' = res.st
            /\ last' = Ran("deleteReflection", id, NoArg,
                           hasReflection(storage, id), res.ret)
    /\ nops' = nops + 1
    /\ UNCHANGED <<clock, ui, tabs, api>>

\* hit: some key of data held other, non-empty content when it was called.
Call_importData ==
    /\ nops < MaxOps
    /\ \E data \in ImportInputs \cup {JSNull} :
        \E failed \in SUBSET (IF data = JSNull THEN {} ELSE DOMAIN data) :
            LET res == importData(storage, data, failed)
                overwrites == /\ data # JSNull
                              /\ \E k \in DOMAIN data :
                                    getItem(storage, k, <<>>) \notin {<<>>, data[k]}
            IN  /\ storage' = res.st
                /\ last' = Ran("importData", NoId, [data |-> data, failed |-> failed],
                               overwrites, res.ret)
    /\ nops' = nops + 1
    /\ UNCHANGED <<clock, ui, tabs, api>>

Call_setApiKey ==
    /\ nops < MaxOps
    /\ \E key \in ApiKeyInputs, ok \in BOOLEAN :
        LET res == Storage_setApiKey(storage, key, ok)
        IN  /\ storage' = res.st
            /\ last' = Ran("setApiKey", NoId, [key |-> key], hasApiKey(storage), res.ret)
    /\ nops' = nops + 1
    /\ UNCHANGED <<clock, ui, tabs, api>>

Call_removeApiKey ==
    /\ nops < MaxOps
    /\ LET res == Storage_removeApiKey(storage)
       IN  /\ storage' = res.st
           /\ last' = Ran("removeApiKey", NoId, NoArg, hasApiKey(storage), res.ret)
    /\ nops' = nops + 1
    /\ UNCHANGED <<clock, ui, tabs, api>>

\* hit: the API key and the three collections all held something.
Call_clearAll ==
    /\ nops < MaxOps
    /\ LET res == clearAll(storage)
           full == /\ hasApiKey(storage)
                   /\ getQuotes(storage) # <<>>
                   /\ getFavorites(storage) # <<>>
                   /\ getReflections(storage) # <<>>
       IN  /\ storage' = res.st
           /\ last' = Ran("clearAll", NoId, NoArg, full, res.ret)
    /\ nops' = nops + 1
    /\ UNCHANGED <<clock, ui, tabs, api>>

\* The readers write nothing: the storage after the call is the one before.
Call_getReflectionsForQuote ==
    /\ nops < MaxOps
    /\ \E quoteId \in IdInputs :
          last' = Ran("getReflectionsForQuote", quoteId,
                      [result |-> getReflectionsForQuote(storage, quoteId)],
                      hasQuote(storage, quoteId), TRUE)
    /\ nops' = nops + 1
    /\ UNCHANGED <<storage, clock, ui, tabs, api>>

Call_getStats ==
    /\ nops < MaxOps
    /\ last' = Ran("getStats", NoId, [result |-> getStats(storage)], FALSE, TRUE)
    /\ nops' = nops + 1
    /\ UNCHANGED <<storage, clock, ui, tabs, api>>

Next ==
    \/ Call_getReflectionsForQuote
    \/ Call_getStats
    \/ Call_setApiKey
    \/ Call_removeApiKey
    \/ Call_clearAll
    \/ Call_saveQuote
    \/ Call_updateQuote
    \/ Call_deleteQuote
    \/ Call_addToFavorites
    \/ Call_removeFromFavorites
    \/ Call_saveReflection
    \/ Call_updateReflection
    \/ Call_deleteReflection
    \/ Call_importData

Spec == Init /\ [][Next]_vars

(***************************************************************************)
(* ExportSpec: snapshots.  The Store is filled through its API, exported,  *)
(* and what was exported is imported again.                                *)
(***************************************************************************)
Call_exportData ==
    /\ nops < MaxOps
    /\ last' = Ran("exportData", NoId, [result |-> exportData(storage, clock)],
                   hasApiKey(storage), TRUE)
    /\ nops' = nops + 1
    /\ UNCHANGED <<storage, clock, ui, tabs, api>>

\* importData(exportData()); failed: the keys whose setItem call fails.
\* hit: quotes and favorites held something.
Call_importExported ==
    /\ nops < MaxOps
    /\ \E failed \in SUBSET ImportKeys :
        LET data == exportData(storage, clock)
            res == importData(storage, data, failed)
            full == /\ getQuotes(storage) # <<>>
                    /\ getFavorites(storage) # <<>>
        IN  /\ storage' = res.st
            /\ last' = Ran("importExported", NoId, [data |-> data, failed |-> failed],
                           full, res.ret)
    /\ nops' = nops + 1
    /\ UNCHANGED <<clock, ui, tabs, api>>

ExportNext ==
    \/ Call_setApiKey
    \/ Call_saveQuote
    \/ Call_addToFavorites
    \/ Call_saveReflection
    \/ Call_exportData
    \/ Call_importExported

ExportSpec == Init /\ [][ExportNext]_vars

(***************************************************************************)
(* Controller (QuoteScribeApp)                                             *)
(***************************************************************************)
MaxEvents == 4

\* String.prototype.trim on a sequence of characters.
isSpace(c) == c = " "

RECURSIVE trimStart(_)
trimStart(s) ==
    IF s # <<>> /\ isSpace(Head(s)) THEN trimStart(Tail(s)) ELSE s

RECURSIVE trimEnd(_)
trimEnd(s) ==
    IF s # <<>> /\ isSpace(s[Len(s)]) THEN trimEnd(SubSeq(s, 1, Len(s) - 1)) ELSE s

\* Mutant: the text is taken as typed.
trim_asTyped(s) == s

trim(s) == trimEnd(trimStart(s))

\* What the user may have typed into #quote-input / #reflection-text.
RawTexts == { <<>>, <<" ">>, <<" ", "a">>, <<"b">> }

\* displayQuotes / renderQuote: one card per quote, with its favorite marker.
renderQuotes(st, quotes) ==
    [i \in 1..Len(quotes) |->
        [quote |-> quotes[i], favorited |-> isFavorite(st, quotes[i].id)]]

\* renderReflection: one card per reflection, with its quote when stored.
renderReflections(st, reflections) ==
    [i \in 1..Len(reflections) |->
        [reflection |-> reflections[i],
         quoted |-> hasQuote(st, reflections[i].quoteId)]]

loadQuotes(u, st) == [u EXCEPT !.quotes = renderQuotes(st, getQuotes(st))]

loadFavorites(u, st) ==
    [u EXCEPT !.favorites = renderQuotes(st, getFavoriteQuotes(st))]

loadReflections(u, st) ==
    [u EXCEPT !.reflections = renderReflections(st, getReflections(st))]

\* Mutant: one <option> per favorite id.
updateQuoteSelect_fromFavorites(u, st) == [u EXCEPT !.select = getFavorites(st)]

\* One <option> per stored quote, its value the quote's id.
updateQuoteSelect(u, st) ==
    [u EXCEPT !.select = [i \in 1..Len(getQuotes(st)) |-> getQuotes(st)[i].id]]

Sections == { "add-quote", "favorites", "reflect", "settings" }

\* The quote cards of the section on screen: quotes-container belongs to the
\* add-quote section, favorites-container to the favorites section.
VisibleQuoteIds ==
    IF ui.currentSection = "add-quote"
    THEN { ui.quotes[i].quote.id : i \in 1..Len(ui.quotes) }
    ELSE IF ui.currentSection = "favorites"
    THEN { ui.favorites[i].quote.id : i \in 1..Len(ui.favorites) }
    ELSE {}

AppRan(op, id, arg, hit, ret, toast) ==
    [op |-> op, id |-> id, arg |-> arg, hit |-> hit, ret |-> ret, toast |-> toast]

Tick ==
    /\ clock < MaxClock
    /\ clock' = clock + 1
    /\ UNCHANGED <<storage, last, nops, ui, tabs, api>>

App_switchSection ==
    /\ nops < MaxEvents
    /\ \E sectionId \in Sections \ {ui.currentSection} :
        LET u0 == [ui EXCEPT !.currentSection = sectionId]
        IN  /\ ui' = IF sectionId = "favorites" THEN loadFavorites(u0, storage)
                     ELSE IF sectionId = "reflect"
                     THEN loadReflections(updateQuoteSelect(u0, storage), storage)
                     ELSE u0
            /\ last' = AppRan("App.switchSection", NoId, NoArg, FALSE, TRUE, "")
    /\ nops' = nops + 1
    /\ UNCHANGED <<storage, clock, tabs, api>>

App_saveQuote ==
    /\ nops < MaxEvents
    /\ ui.currentSection = "add-quote"
    /\ \E raw \in RawTexts, rnd \in RandSuffixes, ok \in BOOLEAN :
        LET text == trim(raw)
            quote == [id |-> generateId(clock, rnd), text |-> text,
                      createdAt |-> toISOString(clock), isFavorite |-> FALSE]
            res == Storage_saveQuote(storage, quote, ok)
        IN  IF text = <<>>
            THEN /\ last' = AppRan("App.saveQuote", NoId, [raw |-> raw], FALSE, FALSE,
                                   "Please enter a quote")
                 /\ UNCHANGED <<storage, ui>>
            ELSE /\ storage' = res.st
                 /\ ui' = loadQuotes(ui, res.st)
                 /\ last' = AppRan("App.saveQuote", quote.id, quote,
                                   hasQuote(storage, quote.id), res.ret, "Quote saved")
    /\ nops' = nops + 1
    /\ UNCHANGED <<clock, tabs, api>>

App_toggleFavorite ==
    /\ nops < MaxEvents
    /\ \E quoteId \in VisibleQuoteIds, ok \in BOOLEAN :
        LET fav == isFavorite(storage, quoteId)
            res == IF fav THEN Storage_removeFromFavorites(storage, quoteId, ok)
                   ELSE Storage_addToFavorites(storage, quoteId, ok)
            u1 == loadQuotes(ui, res.st)
        IN  /\ storage' = res.st
            /\ ui' = IF ui.currentSection = "favorites"
                     THEN loadFavorites(u1, res.st) ELSE u1
            /\ last' = AppRan("App.toggleFavorite", quoteId, NoArg, fav, res.ret,
                              IF fav THEN "Removed from favorites"
                              ELSE "Added to favorites")
    /\ nops' = nops + 1
    /\ UNCHANGED <<clock, tabs, api>>

\* Mutant: only the quote is deleted.
deleteQuoteWrites_quoteOnly(st, quoteId, ok1, ok2) ==
    Storage_deleteQuote(st, quoteId, ok1)

\* The two Store calls of deleteQuote, whose results it drops.
deleteQuoteWrites(st, quoteId, ok1, ok2) ==
    LET r1 == Storage_deleteQuote(st, quoteId, ok1)
        r2 == Storage_removeFromFavorites(r1.st, quoteId, ok2)
    IN  [st |-> r2.st, ret |-> r1.ret /\ r2.ret]

App_deleteQuote ==
    /\ nops < MaxEvents
    /\ \E quoteId \in VisibleQuoteIds, confirmed \in BOOLEAN,
          ok1 \in BOOLEAN, ok2 \in BOOLEAN :
        LET r2 == deleteQuoteWrites(storage, quoteId, ok1, ok2)
            u1 == updateQuoteSelect(loadQuotes(ui, r2.st), r2.st)
        IN  IF confirmed
            THEN /\ storage' = r2.st
                 /\ ui' = IF ui.currentSection = "favorites"
                          THEN loadFavorites(u1, r2.st) ELSE u1
                 /\ last' = AppRan("App.deleteQuote", quoteId,
                                   [favorite |-> isFavorite(storage, quoteId)],
                                   hasQuote(storage, quoteId), r2.ret,
                                   "Quote deleted")
            ELSE /\ last' = AppRan("App.deleteQuote", quoteId,
                                   [favorite |-> isFavorite(storage, quoteId)],
                                   hasQuote(storage, quoteId), FALSE, "")
                 /\ UNCHANGED <<storage, ui>>
    /\ nops' = nops + 1
    /\ UNCHANGED <<clock, tabs, api>>

App_saveReflection ==
    /\ nops < MaxEvents
    /\ ui.currentSection = "reflect"
    /\ \E sel \in 0..Len(ui.select), raw \in RawTexts, rnd \in RandSuffixes,
          ok \in BOOLEAN :
        LET quoteId == IF sel = 0 THEN <<>> ELSE ui.select[sel]
            text == trim(raw)
            reflection == [id |-> generateId(clock, rnd), quoteId |-> quoteId,
                           text |-> text, createdAt |-> toISOString(clock)]
            res == Storage_saveReflection(storage, reflection, ok)
        IN  IF quoteId = <<>>
            THEN /\ last' = AppRan("App.saveReflection", NoId, NoArg, FALSE, FALSE,
                                   "Please select a quote to reflect on")
                 /\ UNCHANGED <<storage, ui>>
            ELSE IF text = <<>>
            THEN /\ last' = AppRan("App.saveReflection", NoId, [raw |-> raw], FALSE,
                                   FALSE, "Please enter your reflection")
                 /\ UNCHANGED <<storage, ui>>
            ELSE /\ storage' = res.st
                 /\ ui' = loadReflections(ui, res.st)
                 /\ last' = AppRan("App.saveReflection", reflection.id, reflection,
                                   hasReflection(storage, reflection.id), res.ret,
                                   "Reflection saved")
    /\ nops' = nops + 1
    /\ UNCHANGED <<clock, tabs, api>>

App_deleteReflection ==
    /\ nops < MaxEvents
    /\ ui.currentSection = "reflect"
    /\ \E i \in 1..Len(ui.reflections), confirmed \in BOOLEAN, ok \in BOOLEAN :
        LET reflectionId == ui.reflections[i].reflection.id
            res == Storage_deleteReflection(storage, reflectionId, ok)
        IN  IF confirmed
            THEN /\ storage' = res.st
                 /\ ui' = loadReflections(ui, res.st)
                 /\ last' = AppRan("App.deleteReflection", reflectionId, NoArg,
                                   hasReflection(storage, reflectionId), res.ret,
                                   "Reflection deleted")
            ELSE /\ last' = AppRan("App.deleteReflection", reflectionId, NoArg,
                                   hasReflection(storage, reflectionId), FALSE, "")
                 /\ UNCHANGED <<storage, ui>>
    /\ nops' = nops + 1
    /\ UNCHANGED <<clock, tabs, api>>

AppNext ==
    \/ Tick
    \/ App_switchSection
    \/ App_saveQuote
    \/ App_toggleFavorite
    \/ App_deleteQuote
    \/ App_saveReflection
    \/ App_deleteReflection

AppSpec == Init /\ [][AppNext]_vars

(***************************************************************************)
(* TabsSpec: two windows share localStorage.  Each runs saveQuote on its   *)
(* own event loop, so the other window's calls fall before, after or       *)
(* between its read (getQuotes) and its write (setItem).                   *)
(***************************************************************************)
Tab_saveQuote_read(tab) ==
    /\ nops < MaxOps
    /\ tabs[tab].pc # "write"
    /\ \E quote \in QuoteInputs :
          tabs' = [tabs EXCEPT ![tab] =
                      [pc |-> "write", quote |-> quote,
                       quotes |-> saveQuote_read(storage, quote)]]
    /\ nops' = nops + 1
    /\ UNCHANGED <<storage, last, clock, ui, api>>

Tab_saveQuote_write(tab) ==
    /\ tabs[tab].pc = "write"
    /\ \E ok \in BOOLEAN :
        LET res == saveQuote_write(storage, tabs[tab].quotes, ok)
        IN  /\ storage' = res.st
            /\ tabs' = [tabs EXCEPT ![tab] =
                            [pc |-> "done", quote |-> tabs[tab].quote,
                             quotes |-> tabs[tab].quotes, result |-> res.ret]]
            /\ last' = Ran("Tab.saveQuote", tabs[tab].quote.id, tabs[tab].quote,
                           FALSE, res.ret)
    /\ UNCHANGED <<nops, clock, ui, api>>

TabsNext ==
    \/ \E tab \in Tabs : Tab_saveQuote_read(tab)
    \/ \E tab \in Tabs : Tab_saveQuote_write(tab)

TabsSpec == Init /\ [][TabsNext]_vars

(***************************************************************************)
(* API client (js/api.js) and the key validator (js/utils.js)              *)
(***************************************************************************)
startsWith(s, prefix) ==
    Len(s) >= Len(prefix) /\ SubSeq(s, 1, Len(prefix)) = prefix

Repeat(c, n) == [i \in 1..n |-> c]

KeyPrefix == <<"s", "k", "-", "o", "r", "-">>

\* Mutant: the prefix alone makes a key valid.
isValidApiKey_prefixOnly(key) == startsWith(key, KeyPrefix)

\* typeof key === 'string' && key.length > 20 && key.startsWith('sk-or-')
isValidApiKey(key) == Len(key) > 20 /\ startsWith(key, KeyPrefix)

\* What the user may have typed into #api-key-input: nothing, a blank, a key
\* that is too short, a long one without the prefix, and two well-formed keys,
\* one of them typed after a space.
KeyTexts ==
    { <<>>, <<" ">>, KeyPrefix \o <<"1">>, Repeat("x", 21),
      <<" ">> \o KeyPrefix \o Repeat("1", 15), KeyPrefix \o Repeat("2", 15) }

\* The text of a completion.  A word that cleanQuote knows as a prefix is kept
\* as one element, every other element is a character.
Contents ==
    { <<>>, <<" ">>, <<"a">>, <<"\"", "a", "\"">>, <<"\"", "\"">>,
      <<"Quote:", " ", "b">> }

\* What the request ends with: a 200 response with its completion, a 200
\* response whose body is no JSON, a 401 response with or without an error
\* message in its body, or a TypeError of fetch().
Responses ==
    { [kind |-> "ok", content |-> c] : c \in Contents }
    \cup { [kind |-> "syntax", message |-> "Unexpected end of JSON input"] }
    \cup { [kind |-> "http", status |-> "401", statusText |-> "Unauthorized",
            message |-> m] : m \in {"", "No auth credentials found"} }
    \cup { [kind |-> "network", message |-> m] : m \in {"Failed to fetch", "Load failed"} }

\* A returned value or a thrown Error with its message.
Returned(value) == [ok |-> TRUE, value |-> value]
Thrown(message) == [ok |-> FALSE, error |-> message]

\* error.message.includes('fetch')
includesFetch(message) == message = "Failed to fetch"

\* makeRequest once fetch() has ended.
makeRequest(response) ==
    IF response.kind = "ok" THEN Returned(response.content)
    ELSE IF response.kind = "http"
    THEN Thrown(IF response.message # "" THEN response.message
                ELSE "HTTP 401: Unauthorized")
    ELSE IF response.kind = "network" /\ includesFetch(response.message)
    THEN Thrown("Network error. Please check your internet connection.")
    ELSE Thrown(response.message)

\* error.message.includes('401') || error.message.includes('invalid')
includes401OrInvalid(message) == message = "HTTP 401: Unauthorized"

validateApiKey(response) ==
    LET res == makeRequest(response)
    IN  IF res.ok THEN Returned(TRUE)
        ELSE IF includes401OrInvalid(res.error) THEN Thrown("Invalid API key")
        ELSE res

Prefixes == <<"Here is", "Here's", "Quote:", "Inspirational quote:", "Wise words:">>

RECURSIVE removePrefixes(_, _)
removePrefixes(cleaned, i) ==
    IF i > Len(Prefixes) THEN cleaned
    ELSE IF cleaned # <<>> /\ Head(cleaned) = Prefixes[i]
    THEN removePrefixes(trim(Tail(cleaned)), i + 1)
    ELSE removePrefixes(cleaned, i + 1)

cleanQuote(quote) ==
    LET cleaned == trim(quote)
        quoted(q) == startsWith(cleaned, <<q>>) /\ cleaned[Len(cleaned)] = q
        sliced == IF quoted("\"") \/ quoted("'")
                  THEN SubSeq(cleaned, 2, Len(cleaned) - 1) ELSE cleaned
    IN  trim(removePrefixes(sliced, 1))

\* Mutant: an empty completion is handed on as the quote.
ApiClient_generateQuote_lenient(response) ==
    LET res == makeRequest(response)
    IN  IF ~res.ok THEN res ELSE Returned(cleanQuote(trim(res.value)))

\* ApiClient.generateQuote once its request has ended; of the fields it looks
\* for a quote in, the completion's content is the one the response carries.
ApiClient_generateQuote(response) ==
    LET res == makeRequest(response)
        quote == trim(res.value)
    IN  IF ~res.ok THEN res
        ELSE IF quote = <<>>
        THEN Thrown("No quote generated - API returned empty response")
        ELSE Returned(cleanQuote(quote))

(***************************************************************************)
(* ApiSpec: the settings and generation handlers.  An async handler runs   *)
(* to its await in one step and from the response to its end in another;   *)
(* other handlers run in between.                                          *)
(***************************************************************************)
\* Handlers started in one behaviour of ApiSpec.
MaxCalls == 3

\* request: whether the step called fetch().
ApiRan(op, arg, ret, toast, type, request) ==
    [op |-> op, id |-> NoId, arg |-> arg, hit |-> FALSE, ret |-> ret,
     toast |-> toast, type |-> type, request |-> request]

Awaiting(kind) == { call \in api.calls : call.kind = kind }

\* saveApiKey up to await apiClient.validateApiKey().
App_saveApiKey ==
    /\ nops < MaxCalls
    /\ \E raw \in KeyTexts :
        LET key == trim(raw)
        IN  IF key = <<>>
            THEN /\ last' = ApiRan("App.saveApiKey", [key |-> key], FALSE,
                                   "Please enter an API key", "error", FALSE)
                 /\ UNCHANGED api
            ELSE IF ~isValidApiKey(key)
            THEN /\ last' = ApiRan("App.saveApiKey", [key |-> key], FALSE,
                                   "Please enter a valid OpenRouter API key (starts with sk-or-)",
                                   "error", FALSE)
                 /\ UNCHANGED api
            ELSE /\ api' = [api EXCEPT
                               !.apiKey = key,
                               !.calls = @ \cup {[n |-> nops, kind |-> "saveApiKey",
                                                  key |-> key]}]
                 /\ last' = ApiRan("App.saveApiKey", [key |-> key], TRUE, "", "", TRUE)
    /\ nops' = nops + 1
    /\ UNCHANGED <<storage, clock, ui, tabs>>

\* saveApiKey from the response on.
App_saveApiKey_resume ==
    /\ \E call \in Awaiting("saveApiKey"), response \in Responses, ok \in BOOLEAN :
        LET valid == validateApiKey(response)
        IN  /\ api' = [api EXCEPT !.calls = @ \ {call}]
            /\ IF valid.ok
               THEN /\ storage' = Storage_setApiKey(storage, call.key, ok).st
                    /\ last' = ApiRan("App.saveApiKey.resume",
                                      [call |-> call, response |-> response], TRUE,
                                      "API key saved successfully", "success", FALSE)
               ELSE /\ storage' = storage
                    /\ last' = ApiRan("App.saveApiKey.resume",
                                      [call |-> call, response |-> response], FALSE,
                                      valid.error, "error", FALSE)
    /\ UNCHANGED <<nops, clock, ui, tabs>>

\* testApiKey up to await apiClient.validateApiKey().
App_testApiKey ==
    /\ nops < MaxCalls
    /\ LET key == getApiKey(storage)
       IN  IF key = <<>>
           THEN /\ last' = ApiRan("App.testApiKey", [key |-> key], FALSE,
                                  "Please save an API key first", "error", FALSE)
                /\ UNCHANGED api
           ELSE /\ api' = [api EXCEPT
                              !.apiKey = key,
                              !.calls = @ \cup {[n |-> nops, kind |-> "testApiKey",
                                                 key |-> key]}]
                /\ last' = ApiRan("App.testApiKey", [key |-> key], TRUE, "", "", TRUE)
    /\ nops' = nops + 1
    /\ UNCHANGED <<storage, clock, ui, tabs>>

App_testApiKey_resume ==
    /\ \E call \in Awaiting("testApiKey"), response \in Responses :
        LET valid == validateApiKey(response)
        IN  /\ api' = [api EXCEPT !.calls = @ \ {call}]
            /\ last' = IF valid.ok
                       THEN ApiRan("App.testApiKey.resume",
                                   [call |-> call, response |-> response], TRUE,
                                   "API key is valid", "success", FALSE)
                       ELSE ApiRan("App.testApiKey.resume",
                                   [call |-> call, response |-> response], FALSE,
                                   valid.error, "error", FALSE)
    /\ UNCHANGED <<storage, nops, clock, ui, tabs>>

App_deleteApiKey ==
    /\ nops < MaxCalls
    /\ \E confirmed \in BOOLEAN :
        IF confirmed
        THEN /\ storage' = Storage_removeApiKey(storage).st
             /\ api' = [api EXCEPT !.apiKey = <<>>]
             /\ last' = ApiRan("App.deleteApiKey", NoArg, TRUE,
                               "API key deleted", "success", FALSE)
        ELSE /\ last' = ApiRan("App.deleteApiKey", NoArg, FALSE, "", "", FALSE)
             /\ UNCHANGED <<storage, api>>
    /\ nops' = nops + 1
    /\ UNCHANGED <<clock, ui, tabs>>

\* Mutant: the busy state is left as it is.
generateQuote_finally_skipped(a) == a

\* finally: the button is enabled and the overlay hidden.
generateQuote_finally(a) == [a EXCEPT !.busy = FALSE]

\* generateQuote up to await apiClient.generateQuote(); a disabled button
\* takes no click.  makeRequest throws before fetch() when the client has no
\* key, and the handler then runs through catch and finally at once.
App_generateQuote ==
    /\ nops < MaxCalls
    /\ ~api.busy
    /\ IF ~hasApiKey(storage)
       THEN /\ last' = ApiRan("App.generateQuote", NoArg, FALSE,
                              "Please set your OpenRouter API key in Settings",
                              "error", FALSE)
            /\ UNCHANGED api
       ELSE IF api.apiKey = <<>>
       THEN /\ last' = ApiRan("App.generateQuote", NoArg, FALSE,
                              "API key not configured", "error", FALSE)
            /\ api' = generateQuote_finally([api EXCEPT !.busy = TRUE])
       ELSE /\ api' = [api EXCEPT
                          !.busy = TRUE,
                          !.calls = @ \cup {[n |-> nops, kind |-> "generateQuote",
                                             key |-> api.apiKey]}]
            /\ last' = ApiRan("App.generateQuote", NoArg, TRUE, "", "", TRUE)
    /\ nops' = nops + 1
    /\ UNCHANGED <<storage, clock, ui, tabs>>

App_generateQuote_resume ==
    /\ \E call \in Awaiting("generateQuote"), response \in Responses :
        LET quote == ApiClient_generateQuote(response)
        IN  IF quote.ok
            THEN /\ api' = generateQuote_finally(
                               [api EXCEPT !.calls = @ \ {call},
                                           !.quoteInput = quote.value])
                 /\ last' = ApiRan("App.generateQuote.resume",
                                   [call |-> call, response |-> response], TRUE,
                                   "Quote generated successfully", "success", FALSE)
            ELSE /\ api' = generateQuote_finally([api EXCEPT !.calls = @ \ {call}])
                 /\ last' = ApiRan("App.generateQuote.resume",
                                   [call |-> call, response |-> response], FALSE,
                                   quote.error, "error", FALSE)
    /\ UNCHANGED <<storage, nops, clock, ui, tabs>>

ApiNext ==
    \/ App_saveApiKey
    \/ App_saveApiKey_resume
    \/ App_testApiKey
    \/ App_testApiKey_resume
    \/ App_deleteApiKey
    \/ App_generateQuote
    \/ App_generateQuote_resume

ApiSpec == Init /\ [][ApiNext]_vars

(***************************************************************************)
(* Properties of the Entity Store                                          *)
(***************************************************************************)
Ids(s) == { s[i].id : i \in 1..Len(s) }
Elems(s) == { s[i] : i \in 1..Len(s) }
Count(s, x) == Cardinality({ i \in 1..Len(s) : s[i] = x })

\* What the Store's readers return: the three collections.
Collections(st) == <<getQuotes(st), getFavorites(st), getReflections(st)>>

\* a is b with some elements left out, the rest in b's order.
RECURSIVE IsSubsequence(_, _)
IsSubsequence(a, b) ==
    IF a = <<>> THEN TRUE
    ELSE IF b = <<>> THEN FALSE
    ELSE \/ Head(a) = Head(b) /\ IsSubsequence(Tail(a), Tail(b))
         \/ IsSubsequence(a, Tail(b))

\* C1: after delete(id) on Quotes of a stored quote that is a favorite, the id
\* is in neither the Quotes collection nor the favorite set.
C1_DeleteQuoteClearsFavorite ==
    [][(last'.op = "deleteQuote" /\ last'.ret
            /\ hasQuote(storage, last'.id) /\ isFavorite(storage, last'.id))
        => (~hasQuote(storage', last'.id) /\ ~isFavorite(storage', last'.id))]_vars

\* C2: every id in the favorite set is the id of a quote in the Quotes
\* collection, in every state the Store's operations reach.
C2_FavoritesReferenceQuotes ==
    \A i \in 1..Len(getFavorites(storage)) :
        hasQuote(storage, getFavorites(storage)[i])

\* C3: getFavoriteQuotes returns only quotes that getQuotes returns, also
\* when the favorite set holds the id of a deleted quote.
C3_ResolveWithinQuotes ==
    /\ Ids(getFavoriteQuotes(storage)) \subseteq Ids(getQuotes(storage))
    /\ Elems(getFavoriteQuotes(storage)) \subseteq Elems(getQuotes(storage))

\* C3 witness: a quote was deleted while its id stayed in the favorite set.
C3_Witness ==
    /\ last.op = "deleteQuote" /\ last.hit /\ last.ret
    /\ isFavorite(storage, last.id)
    /\ ~hasQuote(storage, last.id)

\* C4: update never alters the id or the creation timestamp of a stored record,
\* whatever the patch supplies.
C4_UpdateKeepsIdAndCreatedAt ==
    [][/\ (last'.op = "updateQuote" /\ last'.hit /\ last'.ret)
          => /\ Len(getQuotes(storage')) = Len(getQuotes(storage))
             /\ \A i \in 1..Len(getQuotes(storage)) :
                  /\ getQuotes(storage')[i].id = getQuotes(storage)[i].id
                  /\ getQuotes(storage')[i].createdAt = getQuotes(storage)[i].createdAt
       /\ (last'.op = "updateReflection" /\ last'.hit /\ last'.ret)
          => /\ Len(getReflections(storage')) = Len(getReflections(storage))
             /\ \A i \in 1..Len(getReflections(storage)) :
                  /\ getReflections(storage')[i].id = getReflections(storage)[i].id
                  /\ getReflections(storage')[i].createdAt
                       = getReflections(storage)[i].createdAt]_vars

\* before and after differ in the text of the record at index i alone.
OnlyTextChanged(before, after, i, text) ==
    /\ Len(after) = Len(before)
    /\ \A j \in 1..Len(before) : j # i => after[j] = before[j]
    /\ DOMAIN after[i] = DOMAIN before[i]
    /\ after[i].text = text
    /\ \A f \in DOMAIN before[i] \ {"text"} : after[i][f] = before[i][f]

\* C5: update(id, {text: new}) on a stored record changes the text of that one
\* record and nothing else: not its other fields, not another record, not the
\* order, not another collection.
C5_TextPatchChangesOnlyText ==
    [][/\ (last'.op = "updateQuote" /\ last'.hit /\ last'.ret
              /\ DOMAIN last'.arg = {"text"})
          => /\ \E i \in 1..Len(getQuotes(storage)) :
                  /\ getQuotes(storage)[i].id = last'.id
                  /\ OnlyTextChanged(getQuotes(storage), getQuotes(storage'), i,
                                     last'.arg.text)
             /\ \A k \in Keys \ {STORAGE_KEYS.QUOTES} : storage'[k] = storage[k]
       /\ (last'.op = "updateReflection" /\ last'.hit /\ last'.ret
              /\ DOMAIN last'.arg = {"text"})
          => /\ \E i \in 1..Len(getReflections(storage)) :
                  /\ getReflections(storage)[i].id = last'.id
                  /\ OnlyTextChanged(getReflections(storage), getReflections(storage'),
                                     i, last'.arg.text)
             /\ \A k \in Keys \ {STORAGE_KEYS.REFLECTIONS} : storage'[k] = storage[k]]_vars

\* C5 witness: a text-only patch was written to one of several stored quotes.
C5_Witness ==
    /\ last.op = "updateQuote" /\ last.hit /\ last.ret
    /\ DOMAIN last.arg = {"text"}
    /\ Len(getQuotes(storage)) >= 2
    /\ \E i \in 1..Len(getQuotes(storage)) :
          /\ getQuotes(storage)[i].id = last.id
          /\ getQuotes(storage)[i].text = last.arg.text

\* C6: update of an id that is not in the collection returns false and leaves
\* every stored item as it was.
C6_UpdateMissingIsNoop ==
    [][(last'.op \in {"updateQuote", "updateReflection"} /\ ~last'.hit)
        => (last'.ret = FALSE /\ storage' = storage)]_vars

\* C6 witness: updateQuote ran with an id no stored quote has, on a non-empty
\* collection.
C6_Witness ==
    /\ last.op = "updateQuote" /\ ~last.hit
    /\ getQuotes(storage) # <<>>
    /\ ~hasQuote(storage, last.id)

\* after keeps before's records in before's order: an update leaves every
\* record but the one named id in its place, any other operation only removes.
KeepsOrder(before, after, op, id) ==
    IF op \in {"updateQuote", "updateReflection"}
    THEN /\ Len(after) = Len(before)
         /\ Cardinality({ j \in 1..Len(before) : after[j] # before[j] }) <= 1
         /\ \A j \in 1..Len(before) : after[j] # before[j] => before[j].id = id
    ELSE IsSubsequence(after, before)

\* C8: collections are newest-first: create puts the new record in front of the
\* stored ones, and update and delete keep the remaining records in their order
\* (importData replaces a collection by the sequence it is given).
C8_NewestFirst ==
    [][/\ (last'.op = "saveQuote" /\ last'.ret)
          => getQuotes(storage') = <<last'.arg>> \o getQuotes(storage)
       /\ (last'.op = "saveReflection" /\ last'.ret)
          => getReflections(storage') = <<last'.arg>> \o getReflections(storage)
       /\ (last'.op \notin {"saveQuote", "importData"})
          => KeepsOrder(getQuotes(storage), getQuotes(storage'), last'.op, last'.id)
       /\ (last'.op \notin {"saveReflection", "importData"})
          => KeepsOrder(getReflections(storage), getReflections(storage'),
                        last'.op, last'.id)]_vars

\* C8 witness: three different quotes were created on an empty collection.
C8_Witness ==
    /\ last.op = "saveQuote" /\ last.ret
    /\ nops = 3
    /\ Len(getQuotes(storage)) = 3
    /\ Cardinality(Elems(getQuotes(storage))) = 3
    /\ getQuotes(storage)[1] = last.arg

\* C9: delete is idempotent: a second delete(id) leaves the stored items as the
\* first left them and reports success, and a delete of an id that is not in the
\* collection reports success and changes no collection (writes succeeding).
C9_DeleteIdempotent ==
    \A id \in IdInputs :
        LET q1 == Storage_deleteQuote(storage, id, TRUE)
            q2 == Storage_deleteQuote(q1.st, id, TRUE)
            r1 == Storage_deleteReflection(storage, id, TRUE)
            r2 == Storage_deleteReflection(r1.st, id, TRUE)
        IN  /\ q1.ret /\ q2.ret /\ q2.st = q1.st
            /\ r1.ret /\ r2.ret /\ r2.st = r1.st
            /\ ~hasQuote(q1.st, id) /\ ~hasReflection(r1.st, id)
            /\ ~hasQuote(storage, id) => Collections(q1.st) = Collections(storage)
            /\ ~hasReflection(storage, id) => Collections(r1.st) = Collections(storage)

\* C9 witness: a delete ran for an id that was already gone, other quotes
\* being stored.
C9_Witness ==
    /\ last.op = "deleteQuote" /\ ~last.hit /\ last.ret
    /\ getQuotes(storage) # <<>>

NoRepeats(s) == \A i, j \in 1..Len(s) : s[i] = s[j] => i = j

\* C11: the favorites start without a repeated id, no add or remove call
\* introduces one, and adding an id that is already a favorite returns true
\* and leaves the stored favorites as they were.
C11_FavoritesSetSemantics ==
    /\ NoRepeats(getFavorites(storage))
    /\ [][/\ (/\ last'.op \in {"addToFavorites", "removeFromFavorites"}
              /\ NoRepeats(getFavorites(storage)))
             => NoRepeats(getFavorites(storage'))
          /\ (last'.op = "addToFavorites" /\ last'.hit)
             => /\ last'.ret = TRUE
                /\ storage' = storage]_vars

\* An id added again while it and another id are favorites.
C11_Witness ==
    /\ last.op = "addToFavorites"
    /\ last.hit
    /\ last.ret
    /\ Len(getFavorites(storage)) = 2

\* The orders in which the ids of s may have been added.
Reorderings(s) ==
    { [i \in 1..Len(s) |-> s[p[i]]] :
        p \in { q \in [1..Len(s) -> 1..Len(s)] :
                    \A i, j \in 1..Len(s) : q[i] = q[j] => i = j } }

\* C12: getFavoriteQuotes() is the stored quotes with those left out whose id
\* is no favorite, the rest in the quotes' order, and it is the same for every
\* order of the stored favorites.
C12_ResolveInQuotesOrder ==
    LET quotes == getQuotes(storage)
        favorites == getFavorites(storage)
        resolved == getFavoriteQuotes(storage)
        Picked == { i \in 1..Len(quotes) : quotes[i].id \in Elems(favorites) }
    IN  /\ IsSubsequence(resolved, quotes)
        /\ \A i \in 1..Len(resolved) : resolved[i].id \in Elems(favorites)
        /\ Len(resolved) = Cardinality(Picked)
        /\ \A reordered \in Reorderings(favorites) :
              getFavoriteQuotes([storage EXCEPT ![STORAGE_KEYS.FAVORITES] =
                                    JSONstringify(reordered)]) = resolved

\* Two favorite quotes, stored in the opposite order of their favorite ids.
C12_Witness ==
    LET favorites == getFavorites(storage)
        resolved == getFavoriteQuotes(storage)
    IN  /\ Len(favorites) = 2
        /\ Len(resolved) = 2
        /\ favorites[1] # favorites[2]
        /\ resolved[1].id = favorites[2]
        /\ resolved[2].id = favorites[1]

\* C13: deleteQuote, called on the Store or by the controller's deleteQuote,
\* leaves the stored reflections as they are whatever the id and the outcome
\* of its writes, so the reflections of the deleted quote are still read.
C13_DeleteQuoteKeepsReflections ==
    /\ [](\A quoteId \in IdInputs, ok1 \in BOOLEAN, ok2 \in BOOLEAN :
            LET store == Storage_deleteQuote(storage, quoteId, ok1).st
                app == deleteQuoteWrites(storage, quoteId, ok1, ok2).st
            IN  /\ store[STORAGE_KEYS.REFLECTIONS] = storage[STORAGE_KEYS.REFLECTIONS]
                /\ app[STORAGE_KEYS.REFLECTIONS] = storage[STORAGE_KEYS.REFLECTIONS]
                /\ getReflections(app) = getReflections(storage))
    /\ [][last'.op = "deleteQuote"
            => /\ getReflections(storage') = getReflections(storage)
               /\ \A i \in 1..Len(getReflections(storage)) :
                     getReflections(storage)[i].quoteId = last'.id
                        => getReflections(storage)[i] \in Elems(getReflections(storage'))]_vars

\* A stored quote with a reflection was deleted.
C13_Witness ==
    /\ last.op = "deleteQuote" /\ last.hit /\ last.ret
    /\ ~hasQuote(storage, last.id)
    /\ \E i \in 1..Len(getReflections(storage)) :
          getReflections(storage)[i].quoteId = last.id

\* C14: once a quote has been deleted, getReflectionsForQuote(its id) returns
\* nothing, although reflections with that quoteId are still stored.
C14_DanglingReflectionsUnmatched ==
    [][(/\ last'.op = "deleteQuote" /\ last'.hit /\ last'.ret
        /\ ~hasQuote(storage', last'.id))
          => getReflectionsForQuote(storage', last'.id) = <<>>]_vars

\* Default values a caller of getItem may pass.
Defaults == { <<>>, <<"d">> }

\* C15: for a key whose item is absent or cannot be parsed, getItem returns
\* the caller's default, whatever it is, and getQuotes, getFavorites and
\* getReflections return the empty sequence.
C15_AbsentOrCorruptReadsDefault ==
    \A key \in Keys :
        storage[key] \in {Absent, Corrupt}
          => /\ \A defaultValue \in Defaults :
                    getItem(storage, key, defaultValue) = defaultValue
             /\ key = STORAGE_KEYS.QUOTES => getQuotes(storage) = <<>>
             /\ key = STORAGE_KEYS.FAVORITES => getFavorites(storage) = <<>>
             /\ key = STORAGE_KEYS.REFLECTIONS => getReflections(storage) = <<>>

\* One collection is absent and another unreadable while the third is stored.
C15_Witness ==
    /\ last.op # "init"
    /\ \E absent \in Keys, corrupt \in Keys, stored \in Keys :
          /\ absent # STORAGE_KEYS.API_KEY
          /\ storage[absent] = Absent
          /\ storage[corrupt] = Corrupt
          /\ storage[stored].kind = "json"
          /\ getItem(storage, stored, <<>>) # <<>>

Mutators ==
    { "saveQuote", "updateQuote", "deleteQuote", "addToFavorites",
      "removeFromFavorites", "saveReflection", "updateReflection",
      "deleteReflection" }

\* res is what a call returns whose write was refused in state st.
Refused(res, st) == res.ret = FALSE /\ res.st = st

\* C16: in every state, each create, update and delete of quotes and
\* reflections and each add and remove of favorites whose write fails returns
\* false and leaves every stored item as it was (addToFavorites of a stored
\* favorite writes nothing, so it has no write to fail); and every such call
\* that returned false left the storage as it was.
C16_FailedWriteReturnsFalse ==
    /\ [](/\ \A quote \in QuoteInputs :
                Refused(Storage_saveQuote(storage, quote, FALSE), storage)
          /\ \A id \in IdInputs, updates \in QuotePatches :
                Refused(Storage_updateQuote(storage, id, updates, FALSE), storage)
          /\ \A id \in IdInputs :
                /\ Refused(Storage_deleteQuote(storage, id, FALSE), storage)
                /\ ~isFavorite(storage, id)
                      => Refused(Storage_addToFavorites(storage, id, FALSE), storage)
                /\ Refused(Storage_removeFromFavorites(storage, id, FALSE), storage)
                /\ Refused(Storage_deleteReflection(storage, id, FALSE), storage)
          /\ \A reflection \in ReflectionInputs :
                Refused(Storage_saveReflection(storage, reflection, FALSE), storage)
          /\ \A id \in IdInputs, updates \in ReflectionPatches :
                Refused(Storage_updateReflection(storage, id, updates, FALSE), storage))
    /\ [][(last'.op \in Mutators /\ last'.ret = FALSE) => storage' = storage]_vars

\* A create failed after an earlier one had been stored.
C16_Witness ==
    /\ last.op = "saveQuote"
    /\ last.ret = FALSE
    /\ getQuotes(storage) # <<>>
    /\ ~hasQuote(storage, last.id)

\* C17: an importData call in which the write of one present key failed and
\* the write of another succeeded returns false, and the keys whose writes
\* succeeded hold the imported values.
C17_PartialImportFails ==
    [][(/\ last'.op = "importData"
        /\ last'.arg.data # JSNull
        /\ last'.arg.failed # {}
        /\ last'.arg.failed # DOMAIN last'.arg.data)
          => /\ last'.ret = FALSE
             /\ \A k \in DOMAIN last'.arg.data \ last'.arg.failed :
                   storage'[k] = JSONstringify(last'.arg.data[k])]_vars

\* C18: importData(data) leaves under each key present in data, when its
\* write succeeds, exactly the supplied value, and leaves every key absent
\* from data, every key whose write failed, and the API key as they were.
C18_ImportReplacesPresentKeys ==
    [][(last'.op = "importData" /\ last'.arg.data # JSNull)
          => /\ \A k \in ImportKeys :
                   IF k \in DOMAIN last'.arg.data /\ k \notin last'.arg.failed
                   THEN /\ storage'[k] = JSONstringify(last'.arg.data[k])
                        /\ getItem(storage', k, <<>>) = last'.arg.data[k]
                   ELSE storage'[k] = storage[k]
             /\ storage'[STORAGE_KEYS.API_KEY] = storage[STORAGE_KEYS.API_KEY]]_vars

\* An import of quotes alone into a store that held other quotes and a
\* favorite.
C18_Witness ==
    /\ last.op = "importData"
    /\ last.hit
    /\ last.arg.failed = {}
    /\ DOMAIN last.arg.data = {"quotes"}
    /\ getQuotes(storage) = last.arg.data.quotes
    /\ getFavorites(storage) # <<>>

\* C20: after clearAll() the four records are absent: getQuotes(),
\* getFavorites() and getReflections() return the empty sequence and
\* hasApiKey() is false.
C20_ClearAllEmptiesEverything ==
    [][last'.op = "clearAll"
          => /\ last'.ret = TRUE
             /\ \A key \in Keys : storage'[key] = Absent
             /\ getQuotes(storage') = <<>>
             /\ getFavorites(storage') = <<>>
             /\ getReflections(storage') = <<>>
             /\ getApiKey(storage') = <<>>
             /\ ~hasApiKey(storage')]_vars

\* clearAll ran on a store that held an API key, a quote, a favorite and a
\* reflection.
C20_Witness ==
    /\ last.op = "clearAll"
    /\ last.hit
    /\ last.ret

\* C23: getReflectionsForQuote(quoteId) is the stored reflections with those
\* left out whose quoteId differs, the rest in their stored order, for every
\* quoteId in every state; and a call returns just that and writes nothing.
C23_ListForQuoteExact ==
    /\ [](\A quoteId \in IdInputs :
            LET reflections == getReflections(storage)
                result == getReflectionsForQuote(storage, quoteId)
                Matching == { i \in 1..Len(reflections) :
                                reflections[i].quoteId = quoteId }
            IN  /\ IsSubsequence(result, reflections)
                /\ \A i \in 1..Len(result) : result[i].quoteId = quoteId
                /\ Len(result) = Cardinality(Matching))
    /\ [][last'.op = "getReflectionsForQuote"
            => /\ storage' = storage
               /\ last'.arg.result = getReflectionsForQuote(storage, last'.id)]_vars

\* A lookup that returned one of two stored reflections.
C23_Witness ==
    /\ last.op = "getReflectionsForQuote"
    /\ Len(last.arg.result) = 1
    /\ Len(getReflections(storage)) = 2
    /\ last.arg.result[1].id # last.id

\* C24: getStats() returns the lengths of the stored quotes, favorites and
\* reflections, each 0 for an absent or unreadable item, and whether a
\* non-empty API key is stored, in every state; and a call returns just that
\* and writes nothing.
C24_StatsPureRead ==
    /\ [](LET stats == getStats(storage)
              Length(key) == IF storage[key].kind = "json"
                             THEN Len(storage[key].val) ELSE 0
          IN  /\ stats.totalQuotes = Length(STORAGE_KEYS.QUOTES)
              /\ stats.totalFavorites = Length(STORAGE_KEYS.FAVORITES)
              /\ stats.totalReflections = Length(STORAGE_KEYS.REFLECTIONS)
              /\ stats.hasApiKey = (/\ storage[STORAGE_KEYS.API_KEY].kind = "json"
                                    /\ storage[STORAGE_KEYS.API_KEY].val # <<>>))
    /\ [][last'.op = "getStats"
            => /\ storage' = storage
               /\ last'.arg.result = getStats(storage)]_vars

\* Statistics read with an API key stored, one collection unreadable and a
\* favorite whose quote is not stored.
C24_Witness ==
    /\ last.op = "getStats"
    /\ last.arg.result.hasApiKey
    /\ last.arg.result.totalFavorites = 1
    /\ last.arg.result.totalQuotes = 0
    /\ \E key \in Keys : storage[key] = Corrupt

\* The store after an operation differs from the one before at most in the
\* item of one key.
WritesOnly(after, before, key) ==
    \A k \in Keys \ {key} : after[k] = before[k]

\* C33: each Store mutation writes only its own item.  In every reachable
\* state and for every input, with the write succeeding or failing, adding or
\* removing a favorite changes at most the favorites item, so the quotes, with
\* their isFavorite fields, and the reflections are as before; creating,
\* updating or deleting a reflection changes at most the reflections item; and
\* no quote, favorite or reflection operation changes the credential.  The
\* calls made behave so.
C33_MutationsWriteOwnRecord ==
    /\ [](\A ok \in BOOLEAN :
            /\ \A id \in IdInputs :
                /\ WritesOnly(Storage_addToFavorites(storage, id, ok).st, storage,
                              STORAGE_KEYS.FAVORITES)
                /\ WritesOnly(Storage_removeFromFavorites(storage, id, ok).st, storage,
                              STORAGE_KEYS.FAVORITES)
                /\ WritesOnly(Storage_deleteReflection(storage, id, ok).st, storage,
                              STORAGE_KEYS.REFLECTIONS)
                /\ \A updates \in ReflectionPatches :
                      WritesOnly(Storage_updateReflection(storage, id, updates, ok).st,
                                 storage, STORAGE_KEYS.REFLECTIONS)
                /\ Storage_deleteQuote(storage, id, ok).st[STORAGE_KEYS.API_KEY]
                      = storage[STORAGE_KEYS.API_KEY]
                /\ \A updates \in QuotePatches :
                      Storage_updateQuote(storage, id, updates, ok).st[STORAGE_KEYS.API_KEY]
                          = storage[STORAGE_KEYS.API_KEY]
            /\ \A reflection \in ReflectionInputs :
                  WritesOnly(Storage_saveReflection(storage, reflection, ok).st, storage,
                             STORAGE_KEYS.REFLECTIONS)
            /\ \A quote \in QuoteInputs :
                  Storage_saveQuote(storage, quote, ok).st[STORAGE_KEYS.API_KEY]
                      = storage[STORAGE_KEYS.API_KEY])
    /\ [][/\ last'.op \in {"addToFavorites", "removeFromFavorites"}
             => /\ getQuotes(storage') = getQuotes(storage)
                /\ getReflections(storage') = getReflections(storage)
                /\ WritesOnly(storage', storage, STORAGE_KEYS.FAVORITES)
          /\ last'.op \in {"saveReflection", "updateReflection", "deleteReflection"}
             => /\ getQuotes(storage') = getQuotes(storage)
                /\ getFavorites(storage') = getFavorites(storage)
                /\ WritesOnly(storage', storage, STORAGE_KEYS.REFLECTIONS)
          /\ last'.op \in {"saveQuote", "updateQuote", "deleteQuote"}
             => getApiKey(storage') = getApiKey(storage)]_vars

\* A stored quote was made a favorite next to a stored credential: the quote
\* still carries isFavorite false.
C33_Witness ==
    /\ last.op = "addToFavorites"
    /\ last.ret
    /\ ~last.hit
    /\ isFavorite(storage, last.id)
    /\ hasApiKey(storage)
    /\ \E i \in 1..Len(getQuotes(storage)) :
          /\ getQuotes(storage)[i].id = last.id
          /\ ~getQuotes(storage)[i].isFavorite

(***************************************************************************)
(* Properties of the controller                                            *)
(***************************************************************************)
NoDuplicateIds(s) == \A i, j \in 1..Len(s) : s[i].id = s[j].id => i = j

\* C10: no two stored quotes share an id and no two stored reflections share
\* an id, in every state the controller's save operations reach.
C10_IdsUnique ==
    /\ NoDuplicateIds(getQuotes(storage))
    /\ NoDuplicateIds(getReflections(storage))

\* C7: after a create whose write succeeds, getAll() holds exactly one record
\* equal to the created entity.
C7_CreateThenExactlyOne ==
    [][/\ (last'.op = "App.saveQuote" /\ last'.ret)
          => Count(getQuotes(storage'), last'.arg) = 1
       /\ (last'.op = "App.saveReflection" /\ last'.ret)
          => Count(getReflections(storage'), last'.arg) = 1]_vars

\* What each view shows when it has just been read from st.
QuoteListFresh(u, st) == u.quotes = renderQuotes(st, getQuotes(st))
FavoritesListFresh(u, st) == u.favorites = renderQuotes(st, getFavoriteQuotes(st))
ReflectionsListFresh(u, st) ==
    u.reflections = renderReflections(st, getReflections(st))
QuoteSelectFresh(u, st) ==
    u.select = [i \in 1..Len(getQuotes(st)) |-> getQuotes(st)[i].id]

\* C21: when saveQuote, toggleFavorite, deleteQuote, saveReflection or
\* deleteReflection has run, every view of a collection it writes shows what
\* is stored: quotes are shown by the quote list and the quote select,
\* favorites by the quote list's markers and the favorites list, reflections
\* by the reflections list.
C21_ViewsFreshAfterMutation ==
    [][/\ (last'.op = "App.saveQuote" /\ last'.toast = "Quote saved")
             => /\ QuoteListFresh(ui', storage')
                /\ QuoteSelectFresh(ui', storage')
       /\ last'.op = "App.toggleFavorite"
             => /\ QuoteListFresh(ui', storage')
                /\ FavoritesListFresh(ui', storage')
       /\ (last'.op = "App.deleteQuote" /\ last'.toast = "Quote deleted")
             => /\ QuoteListFresh(ui', storage')
                /\ QuoteSelectFresh(ui', storage')
                /\ FavoritesListFresh(ui', storage')
       /\ (last'.op \in {"App.saveReflection", "App.deleteReflection"}
           /\ last'.toast \in {"Reflection saved", "Reflection deleted"})
             => ReflectionsListFresh(ui', storage')]_vars

\* Nothing but spaces, or nothing at all.
IsBlank(s) == \A i \in 1..Len(s) : s[i] = " "

\* C22: no stored quote and no stored reflection has empty or blank text; a
\* save that is accepted carries text that is not blank, and a save turned
\* down for its text was given blank text and leaves the storage as it was.
C22_BlankTextRejected ==
    /\ [](/\ \A i \in 1..Len(getQuotes(storage)) :
                ~IsBlank(getQuotes(storage)[i].text)
          /\ \A i \in 1..Len(getReflections(storage)) :
                ~IsBlank(getReflections(storage)[i].text))
    /\ [][last'.op \in {"App.saveQuote", "App.saveReflection"}
           => /\ last'.toast \in {"Quote saved", "Reflection saved"}
                   => ~IsBlank(last'.arg.text)
              /\ last'.toast \in {"Please enter a quote",
                                  "Please enter your reflection"}
                   => /\ IsBlank(last'.arg.raw)
                      /\ storage' = storage
                      /\ ui' = ui]_vars

\* A text of spaces only was turned down while a quote was stored.
C22_Witness ==
    /\ last.op = "App.saveQuote"
    /\ last.toast = "Please enter a quote"
    /\ last.arg.raw # <<>>
    /\ getQuotes(storage) # <<>>

\* Every id in the favorites sequence is the id of a stored quote.
FavoritesStored(st) ==
    \A i \in 1..Len(getFavorites(st)) : hasQuote(st, getFavorites(st)[i])

\* C27: the favorites of a fresh store are stored quotes, and every controller
\* action whose writes all succeeded (or that wrote nothing) keeps it so,
\* toggleFavorite being run on a stored quote; hence after any sequence of
\* such actions every favorite id is the id of a stored quote.
C27_FavoritesAreStoredQuotes ==
    /\ [](nops = 0 => FavoritesStored(storage))
    /\ [][(/\ FavoritesStored(storage)
           /\ last'.ret \/ storage' = storage
           /\ last'.op = "App.toggleFavorite" => hasQuote(storage, last'.id))
          => FavoritesStored(storage')]_vars

\* A stored favorite quote was deleted, both writes succeeding, and its id
\* left the favorites.
C27_Witness ==
    /\ last.op = "App.deleteQuote"
    /\ last.ret
    /\ last.hit
    /\ last.arg.favorite
    /\ ~isFavorite(storage, last.id)
    /\ FavoritesStored(storage)

\* C34: whenever saveQuote or saveReflection shows its 'saved' message the
\* write succeeded and the new entity is in the stored collection.
C34_SuccessOnlyWhenPersisted ==
    [][/\ (last'.op = "App.saveQuote" /\ last'.toast = "Quote saved")
          => /\ last'.ret
             /\ includes(getQuotes(storage'), last'.arg)
       /\ (last'.op = "App.saveReflection" /\ last'.toast = "Reflection saved")
          => /\ last'.ret
             /\ includes(getReflections(storage'), last'.arg)]_vars

\* C35: while the reflect section is on screen the quote-select offers the ids
\* of the stored quotes and no other, and every reflection that saveReflection
\* hands to the Store references a quote that is stored at that moment.
C35_ReflectionReferencesStoredQuote ==
    /\ [](ui.currentSection = "reflect"
            => /\ \A i \in 1..Len(ui.select) : hasQuote(storage, ui.select[i])
               /\ QuoteSelectFresh(ui, storage))
    /\ [][(last'.op = "App.saveReflection" /\ last'.toast = "Reflection saved")
          => /\ hasQuote(storage, last'.arg.quoteId)
             /\ hasQuote(storage', last'.arg.quoteId)]_vars

\* A reflection on the second of two stored quotes was written.
C35_Witness ==
    /\ last.op = "App.saveReflection"
    /\ last.ret
    /\ Len(getQuotes(storage)) = 2
    /\ getQuotes(storage)[2].id = last.arg.quoteId
    /\ getQuotes(storage)[1].id # last.arg.quoteId
    /\ includes(getReflections(storage), last.arg)

(***************************************************************************)
(* Properties of two windows                                               *)
(***************************************************************************)
\* C19: a window's successful write stores the array it read earlier with its
\* quote in front, whatever has been stored since (last write wins), so a
\* quote another window stored in between is no longer in the collection.
C19_LastWriteWins ==
    [][\A tab \in Tabs :
          (tabs[tab].pc = "write" /\ tabs'[tab].pc = "done" /\ tabs'[tab].result)
            => /\ getQuotes(storage') = tabs[tab].quotes
               /\ Head(getQuotes(storage')) = tabs[tab].quote
               /\ \A other \in Tabs \ {tab} :
                     (/\ tabs[other].pc = "done"
                      /\ tabs[other].quote \notin Elems(tabs[tab].quotes))
                        => tabs[other].quote \notin Elems(getQuotes(storage'))]_vars

\* Both windows' saveQuote calls returned true, for quotes with different ids,
\* and only one of the two quotes is stored.
C19_Witness ==
    /\ \A tab \in Tabs : tabs[tab].pc = "done" /\ tabs[tab].result
    /\ tabs[1].quote.id # tabs[2].quote.id
    /\ \E tab \in Tabs :
          /\ hasQuote(storage, tabs[tab].quote.id)
          /\ ~hasQuote(storage, tabs[3 - tab].quote.id)
    /\ Len(getQuotes(storage)) = 1

(***************************************************************************)
(* Properties of the credential and generation handlers                    *)
(***************************************************************************)
\* The messages of a generation whose remote call failed: the service's
\* refusal, the network error and the empty response.
RemoteFailures ==
    { ApiClient_generateQuote(response).error :
        response \in { r \in Responses : ~ApiClient_generateQuote(r).ok } }

MissingCredential ==
    { "Please set your OpenRouter API key in Settings", "API key not configured" }

\* C25: a generation attempted while no credential is stored, or while the
\* client holds none, calls fetch() for nothing, leaves no request awaiting,
\* and ends in an error toast whose message names the missing credential and
\* is none of the messages of a failed remote call.
C25_NoCredentialNoRequest ==
    [][(last'.op = "App.generateQuote"
            /\ (getApiKey(storage) = <<>> \/ api.apiKey = <<>>))
        => /\ ~last'.request
           /\ api' = api
           /\ storage' = storage
           /\ last'.type = "error"
           /\ last'.toast \in MissingCredential
           /\ last'.toast \notin RemoteFailures
           /\ (getApiKey(storage) = <<>>
                  => last'.toast = "Please set your OpenRouter API key in Settings")]_vars

\* A generation was attempted with nothing stored while the client still
\* held a key from an earlier save.
C25_Witness ==
    /\ last.op = "App.generateQuote"
    /\ getApiKey(storage) = <<>>
    /\ api.apiKey # <<>>
    /\ ~last.request

\* The remote call failed: the service refused it, the network or the body
\* failed, or the completion holds nothing but blanks.
RemoteCallFailed(response) ==
    response.kind # "ok" \/ trim(response.content) = <<>>

\* C26: a generation whose remote call failed ends, when the response is in,
\* with an error toast that carries a message and is not the success message;
\* the request is no longer awaited and #quote-input keeps its value.
C26_FailedGenerationShowsError ==
    [][(last'.op = "App.generateQuote.resume"
            /\ RemoteCallFailed(last'.arg.response))
        => /\ last'.type = "error"
           /\ last'.toast # ""
           /\ last'.toast # "Quote generated successfully"
           /\ ~last'.ret
           /\ last'.arg.call \notin api'.calls
           /\ api'.quoteInput = api.quoteInput]_vars

\* A generation failed after an earlier one had filled #quote-input.
C26_Witness ==
    /\ last.op = "App.generateQuote.resume"
    /\ RemoteCallFailed(last.arg.response)
    /\ last.type = "error"
    /\ api.quoteInput # <<>>

\* C28: whenever no saveApiKey or testApiKey call awaits its response, the
\* key held by the API client equals the stored credential.
C28_ClientKeyEqualsStored ==
    (Awaiting("saveApiKey") \cup Awaiting("testApiKey") = {})
        => api.apiKey = getApiKey(storage)

\* C29: once deleteApiKey has completed the stored credential stays absent
\* until a saveApiKey is started afterwards.  The step that follows a
\* completed delete either starts a handler or resumes one that was started
\* before the delete, so it leaves the credential absent.
C29_DeletedStaysAbsent ==
    [][(last.op = "App.deleteApiKey" /\ last.ret)
        => getApiKey(storage') = <<>>]_vars

\* The format the validator asks for: more than 20 characters, the first
\* six of them 'sk-or-'.
WellFormedKey(key) == Len(key) > 20 /\ SubSeq(key, 1, 6) = KeyPrefix

CredentialWritten ==
    /\ storage'[STORAGE_KEYS.API_KEY] # storage[STORAGE_KEYS.API_KEY]
    /\ storage'[STORAGE_KEYS.API_KEY] # Absent

\* C30: a step that writes the credential is the end of a saveApiKey whose key
\* is well formed and whose validation request ended without error, and the
\* key written is the key that was validated; a saveApiKey whose key fails the
\* validator, and one whose validation request fails, leave storage as it was.
C30_CredentialWrittenOnlyValidated ==
    [][/\ CredentialWritten
          => /\ last'.op = "App.saveApiKey.resume"
             /\ WellFormedKey(last'.arg.call.key)
             /\ makeRequest(last'.arg.response).ok
             /\ getApiKey(storage') = last'.arg.call.key
       /\ last'.op = "App.saveApiKey" => storage' = storage
       /\ (last'.op = "App.saveApiKey.resume"
              /\ ~makeRequest(last'.arg.response).ok)
          => /\ storage' = storage
             /\ last'.type = "error"]_vars

\* A validated key replaced the stored credential.
C30_Witness ==
    /\ last.op = "App.saveApiKey.resume"
    /\ last.ret
    /\ getApiKey(storage) = last.arg.call.key
    /\ WellFormedKey(getApiKey(storage))

(***************************************************************************)
(* Properties of snapshots                                                 *)
(***************************************************************************)
\* Non-empty credentials: a short one and a well-formed one.
Credentials == { KeyPrefix \o <<"1">>, KeyPrefix \o Repeat("2", 15) }

\* C31: a snapshot does not depend on the value of a non-empty credential:
\* in every state that holds one, storing any other non-empty credential in
\* its place gives the same apiKey, quotes, favorites and reflections, and
\* apiKey is the mask; with no credential stored apiKey is null.  What
\* exportData returned is that snapshot.
C31_ExportHidesCredential ==
    LET a == exportData(storage, clock)
    IN  /\ hasApiKey(storage)
           => \A key \in Credentials :
                LET b == exportData(Storage_setApiKey(storage, key, TRUE).st, clock)
                IN  /\ b.apiKey = a.apiKey
                    /\ b.quotes = a.quotes
                    /\ b.favorites = a.favorites
                    /\ b.reflections = a.reflections
                    /\ a.apiKey = "***"
        /\ ~hasApiKey(storage) => a.apiKey = "null"
        /\ last.op = "exportData" => last.arg.result = a

\* A store holding a credential and a quote was exported.
C31_Witness ==
    /\ last.op = "exportData"
    /\ last.hit
    /\ last.arg.result.apiKey = "***"
    /\ last.arg.result.quotes # <<>>

\* C32: in every reachable state, importing what exportData returns, every
\* write succeeding, leaves quotes, favorites and reflections equal to what
\* they were, empty ones included, and the credential as it was; each key of
\* a collection then holds the collection, also where it was absent or
\* unreadable.  The store after importExported with no failed write is that
\* store.
C32_ExportImportRoundTrip ==
    /\ [](LET res == importData(storage, exportData(storage, clock), {})
          IN  /\ res.ret
              /\ getQuotes(res.st) = getQuotes(storage)
              /\ getFavorites(res.st) = getFavorites(storage)
              /\ getReflections(res.st) = getReflections(storage)
              /\ res.st[STORAGE_KEYS.API_KEY] = storage[STORAGE_KEYS.API_KEY]
              /\ \A k \in ImportKeys :
                    res.st[k] = JSONstringify(getItem(storage, k, <<>>)))
    /\ [][(last'.op = "importExported" /\ last'.arg.failed = {})
          => /\ last'.ret
             /\ storage' = importData(storage, exportData(storage, clock), {}).st
             /\ getQuotes(storage') = getQuotes(storage)
             /\ getFavorites(storage') = getFavorites(storage)
             /\ getReflections(storage') = getReflections(storage)
             /\ getApiKey(storage') = getApiKey(storage)]_vars

\* A store with a quote, a favorite and no reflections went through the
\* round trip.
C32_Witness ==
    /\ last.op = "importExported"
    /\ last.hit
    /\ last.arg.failed = {}
    /\ getQuotes(storage) = last.arg.data.quotes
    /\ getFavorites(storage) # <<>>
    /\ getReflections(storage) = <<>>
    /\ storage[STORAGE_KEYS.REFLECTIONS] = JSONstringify(<<>>)

\* C36: the generate button is disabled exactly while a generation request
\* awaits its response.  The step that issues the request sets the busy state,
\* the step in which the request ends, with a quote or an error, clears it, and
\* a generation that ends without a request leaves the button enabled.
C36_BusyWhileInFlight ==
    /\ [](api.busy <=> Awaiting("generateQuote") # {})
    /\ [][/\ (last'.op = "App.generateQuote" /\ last'.request)
             => /\ ~api.busy
                /\ api'.busy
          /\ (last'.op = "App.generateQuote" /\ ~last'.request) => ~api'.busy
          /\ last'.op = "App.generateQuote.resume"
             => /\ api.busy
                /\ ~api'.busy
                /\ Awaiting("generateQuote")' = {}]_vars

\* A generation ended in an error and the button is enabled again.
C36_Witness ==
    /\ last.op = "App.generateQuote.resume"
    /\ ~last.ret
    /\ last.type = "error"
    /\ ~api.busy
    /\ api.calls = {}

====
